---- MODULE Spec2Model ----
(***************************************************************************)
(* Expense categorisation engine of the finance bot                        *)
(* (src/src/classifier/classifier.py): the text normaliser, the rule       *)
(* matcher, index construction and the step-by-step run of predict /       *)
(* ExpenseClassifier.classify; and its caller: the message parser and      *)
(* handle_expense (src/src/handlers/expenses.py) over the expenses table   *)
(* of ExpenseRepository (src/src/storage/storage.py).                      *)
(*                                                                         *)
(* Text is a sequence of Unicode code points, so that lower-casing,        *)
(* '|' replacement, whitespace splitting and substring search are          *)
(* computed character by character, as str.lower / replace / split / in    *)
(* do.  Cyrillic words are written as code points with a transliteration   *)
(* in the comment next to them.                                            *)
(*                                                                         *)
(* Similarity scores are integers in hundredths (0.82 is 82); only their   *)
(* order relative to each other and to the threshold matters to predict.   *)
(* Amounts of money are integers in hundredths as well.                    *)
(*                                                                         *)
(* Specifications: SpecFn and SpecParse apply the pure functions to        *)
(* bounded inputs; Spec runs the constructor and then classify calls;      *)
(* SpecHist does so against a backend with fixed answers; SpecConc         *)
(* interleaves several calls; SpecRepo drives the repository; SpecBot      *)
(* runs handle_expense message by message.                                 *)
(***************************************************************************)
EXTENDS Integers, Sequences, FiniteSets, TLC

\* ------------------------------------------------------------------------
\* Bounds of the model
\* ------------------------------------------------------------------------
\* pieces per input text of the pure-function specification SpecFn
MaxPieces == 3
\* pieces per text handed to classify in Spec
MaxCallPieces == 2
\* classify calls recorded in SpecHist
MaxCalls == 3
\* pieces per message of the parser specification SpecParse
MaxMsgPieces == 5

\* ------------------------------------------------------------------------
\* Characters and the str primitives used by the classifier
\* ------------------------------------------------------------------------
SPACE == 32
BAR == 124

\* str.isspace on the code points below U+3000 (what str.split() splits on)
isspace(c) ==
    \/ c \in 9..13
    \/ c \in 28..32
    \/ c \in {133, 160, 5760, 8232, 8233, 8239, 8287, 12288}
    \/ c \in 8192..8202

\* str.lower on one code point: ASCII A-Z, Cyrillic U+0410..U+042F (+32),
\* Cyrillic U+0400..U+040F (+80); every other code point of the model's
\* alphabet is caseless or already lower case.
lower_char(c) ==
    IF c \in 65..90 THEN c + 32
    ELSE IF c \in 1040..1071 THEN c + 32
    ELSE IF c \in 1024..1039 THEN c + 80
    ELSE c

lower(s) == [i \in 1..Len(s) |-> lower_char(s[i])]

\* a variant that forgets the replacement
replace_bar_m(s) == s

\* s.replace("|", " ")
replace_bar(s) == [i \in 1..Len(s) |-> IF s[i] = BAR THEN SPACE ELSE s[i]]

\* s.split(): maximal runs of non-whitespace characters, in order
RECURSIVE split_from(_, _, _, _)
split_from(s, i, cur, acc) ==
    IF i > Len(s)
    THEN IF cur = <<>> THEN acc ELSE Append(acc, cur)
    ELSE IF isspace(s[i])
         THEN split_from(s, i + 1, <<>>, IF cur = <<>> THEN acc ELSE Append(acc, cur))
         ELSE split_from(s, i + 1, Append(cur, s[i]), acc)

split(s) == split_from(s, 1, <<>>, <<>>)

\* " ".join(words)
RECURSIVE join(_)
join(words) ==
    IF words = <<>> THEN <<>>
    ELSE IF Len(words) = 1 THEN words[1]
    ELSE words[1] \o <<SPACE>> \o join(Tail(words))

\* needle in hay (substring test)
contains(hay, needle) ==
    \E i \in 0..(Len(hay) - Len(needle)) :
        SubSeq(hay, i + 1, i + Len(needle)) = needle

\* ------------------------------------------------------------------------
\* Category enumeration
\* ------------------------------------------------------------------------
Category ==
    [ FOOD        |-> "needs:food",
      TRANSPORT   |-> "needs:transport",
      FASTFOOD    |-> "fun:fastfood",
      ELECTRONICS |-> "wants:electronics",
      FINANCE     |-> "skip:finance",
      DIGITAL     |-> "other:digital",
      HEALTH      |-> "needs:health",
      UTILITIES   |-> "needs:utilities",
      HOUSEHOLD   |-> "needs:household",
      CLOTHING    |-> "wants:clothing",
      BEAUTY      |-> "wants:beauty",
      LEISURE     |-> "fun:leisure",
      PETS        |-> "needs:pets",
      UNKNOWN     |-> "unknown:check_me" ]

Categories == DOMAIN Category

\* Python's None
None == "None"

\* ------------------------------------------------------------------------
\* clean_text
\* ------------------------------------------------------------------------
N_kupil   == <<1082, 1091, 1087, 1080, 1083>>               \* "kupil"
N_oplatil == <<1086, 1087, 1083, 1072, 1090, 1080, 1083>>   \* "oplatil"
N_oplata  == <<1086, 1087, 1083, 1072, 1090, 1072>>         \* "oplata"
N_chek    == <<1095, 1077, 1082>>                           \* "chek"
N_pokupka == <<1087, 1086, 1082, 1091, 1087, 1082, 1072>>   \* "pokupka"
N_za      == <<1079, 1072>>                                 \* "za"
N_v       == <<1074>>                                       \* "v"
N_na      == <<1085, 1072>>                                 \* "na"

\* a variant whose stop-words include the trigger "mysh'"
noise_mysh ==
    {N_kupil, N_oplatil, N_oplata, N_chek, N_pokupka, N_za, N_v, N_na,
     <<1084, 1099, 1096, 1100>>}
noise == {N_kupil, N_oplatil, N_oplata, N_chek, N_pokupka, N_za, N_v, N_na}

\* the generator expression: the words not in noise, in order
RECURSIVE drop_noise(_)
drop_noise(words) ==
    IF words = <<>> THEN <<>>
    ELSE IF Head(words) \in noise THEN drop_noise(Tail(words))
    ELSE <<Head(words)>> \o drop_noise(Tail(words))

\* filtering before lower-casing: a variant that keeps "ZA" and "V"
clean_text_m(text) == lower(join(drop_noise(split(replace_bar(text)))))

\* a variant that falls back to the lower-cased input when nothing is left
clean_text_fallback(text) ==
    LET c == join(drop_noise(split(replace_bar(lower(text)))))
    IN IF c = <<>> THEN lower(text) ELSE c

clean_text(text) == join(drop_noise(split(replace_bar(lower(text)))))

\* ------------------------------------------------------------------------
\* hard_rules_match
\* ------------------------------------------------------------------------
T_iis        == <<1080, 1080, 1089>>                                  \* "iis"
T_broker     == <<1073, 1088, 1086, 1082, 1077, 1088>>                \* "broker"
T_investic   == <<1080, 1085, 1074, 1077, 1089, 1090, 1080, 1094>>    \* "investic"
T_perevod    == <<1087, 1077, 1088, 1077, 1074, 1086, 1076>>          \* "perevod"
T_zhizha     == <<1078, 1080, 1078, 1072>>                            \* "zhizha"
T_kartridzh  == <<1082, 1072, 1088, 1090, 1088, 1080, 1076, 1078>>    \* "kartridzh"
T_dubaj      == <<1076, 1091, 1073, 1072, 1081>>                      \* "dubaj"
T_dubai      == <<1076, 1091, 1073, 1072, 1080>>                      \* "dubai"
T_vpn_cyr    == <<1074, 1087, 1085>>                                  \* "vpn" in Cyrillic
T_vpn        == <<118, 112, 110>>                                     \* "vpn"
T_chizburger == <<1095, 1080, 1079, 1073, 1091, 1088, 1075, 1077, 1088>> \* "chizburger"
T_burger     == <<1073, 1091, 1088, 1075, 1077, 1088>>                \* "burger"
T_mysh       == <<1084, 1099, 1096, 1100>>                            \* "mysh'"

\* the dict literal, in insertion order
rules ==
    << [trigger |-> T_iis,        cat |-> "FINANCE"],
       [trigger |-> T_broker,     cat |-> "FINANCE"],
       [trigger |-> T_investic,   cat |-> "FINANCE"],
       [trigger |-> T_perevod,    cat |-> "FINANCE"],
       [trigger |-> T_zhizha,     cat |-> "LEISURE"],
       [trigger |-> T_kartridzh,  cat |-> "LEISURE"],
       [trigger |-> T_dubaj,      cat |-> "HOUSEHOLD"],
       [trigger |-> T_dubai,      cat |-> "HOUSEHOLD"],
       [trigger |-> T_vpn_cyr,    cat |-> "DIGITAL"],
       [trigger |-> T_vpn,        cat |-> "DIGITAL"],
       [trigger |-> T_chizburger, cat |-> "FASTFOOD"],
       [trigger |-> T_burger,     cat |-> "FASTFOOD"],
       [trigger |-> T_mysh,       cat |-> "ELECTRONICS"] >>

\* for trigger, cat in rules.items(): if trigger in clean: return cat
RECURSIVE rules_from(_, _)
rules_from(clean, k) ==
    IF k > Len(rules) THEN None
    ELSE IF contains(clean, rules[k].trigger) THEN rules[k].cat
    ELSE rules_from(clean, k + 1)

\* a variant that returns the rule whose trigger occurs earliest in the text
hard_rules_match_m(text) ==
    LET clean == lower(text)
        hits == {k \in 1..Len(rules) : contains(clean, rules[k].trigger)}
        pos(k) == CHOOSE i \in 0..Len(clean) :
                      /\ i + Len(rules[k].trigger) <= Len(clean)
                      /\ SubSeq(clean, i + 1, i + Len(rules[k].trigger)) = rules[k].trigger
                      /\ \A j \in 0..(i - 1) :
                            SubSeq(clean, j + 1, j + Len(rules[k].trigger)) # rules[k].trigger
    IN IF hits = {} THEN None
       ELSE rules[CHOOSE k \in hits : \A h \in hits : pos(k) <= pos(h)].cat

\* a variant that matches case-sensitively
hard_rules_match_cs(text) == rules_from(text, 1)

hard_rules_match(text) == rules_from(lower(text), 1)

\* ------------------------------------------------------------------------
\* Input texts: concatenations of a few pieces
\* ------------------------------------------------------------------------
P_space   == <<SPACE>>
P_bar     == <<BAR>>
P_newline == <<10>>
P_za      == N_za                               \* stop-word "za"
P_V       == <<1042>>                           \* stop-word "v", upper case
P_pn      == <<1087, 1085>>                     \* "pn": with "v" before it, the trigger "vpn" (Cyrillic)
P_VPN     == <<86, 80, 78>>                     \* "VPN"
P_mysh    == T_mysh                             \* trigger, last rule of the table
P_perevod == T_perevod                          \* trigger, fourth rule of the table
P_kofe    == <<1082, 1086, 1092, 1077>>         \* "kofe", no trigger

Pieces == {P_space, P_bar, P_newline, P_za, P_V, P_pn, P_VPN, P_mysh, P_perevod, P_kofe}

\* the two texts of the rule examples
\* "zaplatil za VPN podpisku"
E_vpn ==
    <<1079, 1072, 1087, 1083, 1072, 1090, 1080, 1083, 32, 1079, 1072, 32,
      86, 80, 78, 32, 1087, 1086, 1076, 1087, 1080, 1089, 1082, 1091>>
\* "mysh' dlya kompa"
E_mysh ==
    <<1084, 1099, 1096, 1100, 32, 1076, 1083, 1103, 32, 1082, 1086, 1084,
      1087, 1072>>
ExampleTexts == {E_vpn, E_mysh}

RECURSIVE concat(_)
concat(ps) == IF ps = <<>> THEN <<>> ELSE Head(ps) \o concat(Tail(ps))

TextsOf(k) == {concat(ps) : ps \in [1..k -> Pieces]}
TextsUpTo(n) == UNION {TextsOf(k) : k \in 0..n}

\* ------------------------------------------------------------------------
\* parse_expense_message (src/src/handlers/expenses.py)
\* ------------------------------------------------------------------------
COMMA == 44
DOT == 46

isdigit(c) == c \in 48..57

\* s.strip()
RECURSIVE lstrip(_)
lstrip(s) == IF s # <<>> /\ isspace(Head(s)) THEN lstrip(Tail(s)) ELSE s
RECURSIVE rstrip(_)
rstrip(s) ==
    IF s # <<>> /\ isspace(s[Len(s)]) THEN rstrip(SubSeq(s, 1, Len(s) - 1)) ELSE s
strip(s) == rstrip(lstrip(s))

\* re.split(r"\s+", s, maxsplit=1): cut at the first run of whitespace
re_split_1(s) ==
    LET ws == {i \in 1..Len(s) : isspace(s[i])} IN
    IF ws = {} THEN <<s>>
    ELSE LET a == CHOOSE i \in ws : \A j \in ws : i <= j
             after == {i \in (a + 1)..Len(s) : ~isspace(s[i])}
             b == IF after = {} THEN Len(s) + 1
                  ELSE CHOOSE i \in after : \A j \in after : i <= j
         IN <<SubSeq(s, 1, a - 1), SubSeq(s, b, Len(s))>>

\* amount_str.replace(",", ".")
replace_comma(s) == [i \in 1..Len(s) |-> IF s[i] = COMMA THEN DOT ELSE s[i]]

\* the integer written by a sequence of digits
RECURSIVE digits_value(_)
digits_value(ds) ==
    IF ds = <<>> THEN 0
    ELSE 10 * digits_value(SubSeq(ds, 1, Len(ds) - 1)) + (ds[Len(ds)] - 48)

W_nan == <<110, 97, 110>>       \* "nan"
W_inf == <<105, 110, 102>>      \* "inf"

\* float(s) on the model's alphabet: optional sign, then "nan", "inf", or
\* digits with at most one '.', at least one digit.  The value of a finite
\* number is num / 10^scale.  ok = FALSE stands for ValueError.
FloatError == [ok |-> FALSE, kind |-> "error", neg |-> FALSE, num |-> 0, scale |-> 0]
float(s0) ==
    LET s == strip(s0)
        signed == s # <<>> /\ s[1] \in {43, 45}
        neg == s # <<>> /\ s[1] = 45
        body == IF signed THEN Tail(s) ELSE s
        dots == {i \in 1..Len(body) : body[i] = DOT}
        digs == SelectSeq(body, isdigit)
    IN IF lower(body) = W_nan
         THEN [ok |-> TRUE, kind |-> "nan", neg |-> neg, num |-> 0, scale |-> 0]
       ELSE IF lower(body) = W_inf
         THEN [ok |-> TRUE, kind |-> "inf", neg |-> neg, num |-> 0, scale |-> 0]
       ELSE IF /\ digs # <<>>
               /\ Cardinality(dots) <= 1
               /\ \A i \in 1..Len(body) : isdigit(body[i]) \/ body[i] = DOT
         THEN [ok |-> TRUE, kind |-> "finite", neg |-> neg, num |-> digits_value(digs),
               scale |-> IF dots = {} THEN 0
                         ELSE Len(body) - (CHOOSE i \in dots : TRUE)]
       ELSE FloatError

\* amount <= 0 for a float: false for nan, decided by the sign for inf
float_le_zero(a) ==
    IF a.kind = "nan" THEN FALSE
    ELSE IF a.kind = "inf" THEN a.neg
    ELSE a.neg \/ a.num = 0

\* the two ValueError messages raised by the function itself, and float's own
ERR_FORMAT == "format hint"
ERR_NOT_POSITIVE == "amount must be > 0"
ERR_FLOAT == "could not convert string to float"

\* the function: [ok, description, amount] or [ok = FALSE, error]
ParseError(e) == [ok |-> FALSE, error |-> e, description |-> <<>>, amount |-> FloatError]
parse_expense_message(msg) ==
    LET parts == re_split_1(strip(msg)) IN
    IF Len(parts) # 2 THEN ParseError(ERR_FORMAT)
    ELSE LET amount == float(replace_comma(parts[2])) IN
         IF ~amount.ok THEN ParseError(ERR_FLOAT)
         ELSE IF float_le_zero(amount) THEN ParseError(ERR_NOT_POSITIVE)
         ELSE [ok |-> TRUE, error |-> None, description |-> strip(parts[1]),
               amount |-> amount]

\* message texts: concatenations of a few pieces
M_200  == <<50, 48, 48>>        \* "200"
M_1c5  == <<49, 44, 53>>        \* "1,5"
M_neg5 == <<45, 53>>            \* "-5"
M_0    == <<48>>                \* "0"
MsgPieces == {P_kofe, P_space, M_200, M_1c5, M_neg5, M_0, W_nan}
MsgTextsOf(k) == {concat(ps) : ps \in [1..k -> MsgPieces]}
MsgTextsUpTo(n) == UNION {MsgTextsOf(k) : k \in 0..n}

\* ------------------------------------------------------------------------
\* Anchors, index construction and the semantic path
\* ------------------------------------------------------------------------
\* the anchor dictionary in insertion order; phrases is the number of
\* exemplar sentences of the category (their wording does not reach the
\* control flow, only their number and order do)
CATEGORY_ANCHORS ==
    << [cat |-> "FOOD",        phrases |-> 3],
       [cat |-> "FASTFOOD",    phrases |-> 3],
       [cat |-> "ELECTRONICS", phrases |-> 3],
       [cat |-> "HOUSEHOLD",   phrases |-> 3],
       [cat |-> "TRANSPORT",   phrases |-> 3],
       [cat |-> "FINANCE",     phrases |-> 3],
       [cat |-> "DIGITAL",     phrases |-> 3],
       [cat |-> "HEALTH",      phrases |-> 3],
       [cat |-> "UTILITIES",   phrases |-> 2],
       [cat |-> "CLOTHING",    phrases |-> 3],
       [cat |-> "BEAUTY",      phrases |-> 3],
       [cat |-> "LEISURE",     phrases |-> 3],
       [cat |-> "PETS",        phrases |-> 3] >>

\* similarity threshold, in hundredths
threshold == 82

\* the nested loop of init_classifier, all_phrases: one entry per phrase,
\* categories in dictionary order, phrases in list order.  A phrase is named
\* by its category and its position in the category's list.
RECURSIVE build_all_phrases(_, _)
build_all_phrases(anchors_dict, k) ==
    IF k > Len(anchors_dict) THEN <<>>
    ELSE [i \in 1..anchors_dict[k].phrases |-> <<anchors_dict[k].cat, i>>]
         \o build_all_phrases(anchors_dict, k + 1)

\* a variant that fills the list from the last category to the first
RECURSIVE build_anchor_to_cat_rev(_, _)
build_anchor_to_cat_rev(anchors_dict, k) ==
    IF k > Len(anchors_dict) THEN <<>>
    ELSE build_anchor_to_cat_rev(anchors_dict, k + 1)
         \o [i \in 1..anchors_dict[k].phrases |-> anchors_dict[k].cat]

\* the nested loop of init_classifier, anchor_to_cat: one entry per phrase,
\* categories in dictionary order
RECURSIVE build_anchor_to_cat(_, _)
build_anchor_to_cat(anchors_dict, k) ==
    IF k > Len(anchors_dict) THEN <<>>
    ELSE [i \in 1..anchors_dict[k].phrases |-> anchors_dict[k].cat]
         \o build_anchor_to_cat(anchors_dict, k + 1)

\* the dataclass: row i of anchor_embeddings is the embedding of phrase i of
\* all_phrases (kept as the phrase's name), rows is the number of rows
ClassifierModel(all_phrases, anchor_to_cat) ==
    [ model             |-> "loaded",
      rows              |-> Len(all_phrases),
      anchor_embeddings |-> all_phrases,
      anchor_to_cat     |-> anchor_to_cat,
      threshold         |-> threshold ]

\* init_classifier(model_name, anchors_dict), once the model is loaded
init_classifier(anchors_dict) ==
    ClassifierModel(build_all_phrases(anchors_dict, 1), build_anchor_to_cat(anchors_dict, 1))

NoModelData ==
    [model |-> None, rows |-> 0, anchor_embeddings |-> <<>>, anchor_to_cat |-> <<>>,
     threshold |-> 0]

\* torch.argmax: the index of the first maximal value
argmax(scores) ==
    CHOOSE i \in 1..Len(scores) :
        /\ \A j \in 1..Len(scores) : scores[j] <= scores[i]
        /\ \A j \in 1..(i - 1) : scores[j] < scores[i]

\* truth value of "rule_result := hard_rules_match(text)": None is false, a
\* StrEnum member is true unless its value is the empty string
truthy(cat) == cat # None /\ Category[cat] # ""

QUERY_PREFIX == <<113, 117, 101, 114, 121, 58, 32>>      \* "query: "
\* a warm-up text that holds the trigger "vpn": "warmup vpn text"
WARMUP_TEXT_vpn ==
    <<119, 97, 114, 109, 117, 112, 32, 118, 112, 110, 32, 116, 101, 120, 116>>
WARMUP_TEXT ==
    <<119, 97, 114, 109, 117, 112, 32, 105, 110, 105, 116, 32, 116, 101, 120, 116>>
                                                         \* "warmup init text"

\* What the embedding backend can answer.  The backend is outside the
\* program: an answer is the vector of similarity scores of the encoded
\* query against the rows of the anchor matrix.  The family below has a low
\* floor and up to two rows raised to just below, at, or just above the
\* threshold, on rows of three different categories (ties included).
ScoreFloor == threshold - 50
ScoreValues == {threshold - 1, threshold, threshold + 1}
PeakRows(n) == {1, 4, n}
ScoreVector(n, i, a, j, b) ==
    [r \in 1..n |-> IF r = i THEN a ELSE IF r = j THEN b ELSE ScoreFloor]
ScoreVectors(n) ==
    {ScoreVector(n, i, a, j, b) : i \in PeakRows(n), j \in PeakRows(n),
                                  a \in ScoreValues, b \in ScoreValues}
    \cup {[r \in 1..n |-> ScoreFloor]}

\* ------------------------------------------------------------------------
\* ExpenseRepository (src/src/storage/storage.py)
\* ------------------------------------------------------------------------
\* str(n) for n >= 0, and f"{n:0wd}"
RECURSIVE str_int(_)
str_int(n) == IF n < 10 THEN <<48 + n>> ELSE str_int(n \div 10) \o <<48 + (n % 10)>>
RECURSIVE zero_pad(_, _)
zero_pad(s, w) == IF Len(s) >= w THEN s ELSE zero_pad(<<48>> \o s, w)
format_02d(n) == zero_pad(str_int(n), 2)

\* datetime(year, month, day, hour, minute, second, microsecond)
datetime(Y, M, D, h, m, s, us) ==
    [year |-> Y, month |-> M, day |-> D, hour |-> h, minute |-> m, second |-> s,
     microsecond |-> us]

\* datetime.isoformat(): "YYYY-MM-DDTHH:MM:SS", and ".ffffff" unless the
\* microsecond is 0
isoformat(d) ==
    zero_pad(str_int(d.year), 4) \o <<45>> \o zero_pad(str_int(d.month), 2) \o <<45>>
    \o zero_pad(str_int(d.day), 2) \o <<84>>
    \o zero_pad(str_int(d.hour), 2) \o <<58>> \o zero_pad(str_int(d.minute), 2) \o <<58>>
    \o zero_pad(str_int(d.second), 2)
    \o (IF d.microsecond = 0 THEN <<>> ELSE <<DOT>> \o zero_pad(str_int(d.microsecond), 6))

\* datetime.fromisoformat on the texts isoformat writes
fromisoformat(s) ==
    datetime(digits_value(SubSeq(s, 1, 4)), digits_value(SubSeq(s, 6, 7)),
             digits_value(SubSeq(s, 9, 10)), digits_value(SubSeq(s, 12, 13)),
             digits_value(SubSeq(s, 15, 16)), digits_value(SubSeq(s, 18, 19)),
             IF Len(s) > 19 THEN digits_value(SubSeq(s, 21, 26)) ELSE 0)

\* SQLite strftime('%m', t) and strftime('%Y', t) on an ISO-8601 text: the
\* month as two digits, the year as four
strftime_m(t) == zero_pad(str_int(digits_value(SubSeq(t, 6, 7))), 2)
strftime_Y(t) == zero_pad(str_int(digits_value(SubSeq(t, 1, 4))), 4)

\* comparison of TEXT values (BINARY collation): a < b
RECURSIVE text_lt(_, _)
text_lt(a, b) ==
    IF b = <<>> THEN FALSE
    ELSE IF a = <<>> THEN TRUE
    ELSE IF Head(a) # Head(b) THEN Head(a) < Head(b)
    ELSE text_lt(Tail(a), Tail(b))

\* the value bound to the REAL column: the amount in hundredths
real_of(a) ==
    IF a.scale = 0 THEN 100 * a.num ELSE IF a.scale = 1 THEN 10 * a.num ELSE a.num

\* Expense(user_id, amount, description, category_code, created_at)
Expense(u, a, d, c, t) ==
    [user_id |-> u, amount |-> a, description |-> d, category_code |-> c,
     created_at |-> t]

\* ExpenseRepository.add: INSERT and commit.  Binding a NaN amount stores
\* NULL, which the NOT NULL column rejects (sqlite3.IntegrityError); the
\* table is then as before.
add(rows, expense) ==
    IF expense.amount.kind = "nan" THEN [ok |-> FALSE, rows |-> rows]
    ELSE [ok |-> TRUE,
          rows |-> Append(rows, [user_id |-> expense.user_id,
                                 amount |-> real_of(expense.amount),
                                 description |-> expense.description,
                                 category_code |-> expense.category_code,
                                 created_at |-> isoformat(expense.created_at)])]

\* SUM(amount) over a list of rows
RECURSIVE SUM(_)
SUM(rs) == IF rs = <<>> THEN 0 ELSE Head(rs).amount + SUM(Tail(rs))

\* ExpenseRepository.get_month_summary: the WHERE clause, GROUP BY
\* category_code and SUM(amount), as the dict built from the rows
\* a variant of the WHERE clause that forgets the year
month_where_noyear(r, user_id, month, year) ==
    /\ r.user_id = user_id
    /\ strftime_m(r.created_at) = format_02d(month)
month_where(r, user_id, month, year) ==
    /\ r.user_id = user_id
    /\ strftime_m(r.created_at) = format_02d(month)
    /\ strftime_Y(r.created_at) = str_int(year)
get_month_summary(rows, user_id, month, year) ==
    LET sel == SelectSeq(rows, LAMBDA r : month_where(r, user_id, month, year))
        groups == {sel[i].category_code : i \in 1..Len(sel)}
    IN [c \in groups |-> SUM(SelectSeq(sel, LAMBDA r : r.category_code = c))]

\* summary.get(code, 0.0)
dict_get(d, k, default) == IF k \in DOMAIN d THEN d[k] ELSE default

\* ExpenseRepository.get_last_expenses: the lists the query can return.
\* ORDER BY created_at DESC fixes the order of rows up to rows with equal
\* created_at, whose relative order SQLite leaves open; LIMIT n keeps the
\* first n rows, a negative n keeps all.
\* a variant that orders by created_at ascending
ordered_asc(rows, ix) ==
    \A i \in 1..(Len(ix) - 1) : ~text_lt(rows[ix[i + 1]].created_at, rows[ix[i]].created_at)
ordered_desc(rows, ix) ==
    \A i \in 1..(Len(ix) - 1) : ~text_lt(rows[ix[i]].created_at, rows[ix[i + 1]].created_at)
row_to_expense(r) ==
    Expense(r.user_id, r.amount, r.description, r.category_code,
            fromisoformat(r.created_at))
get_last_expenses(rows, user_id, limit) ==
    LET sel == {i \in 1..Len(rows) : rows[i].user_id = user_id}
        n == Cardinality(sel)
        orders == {ix \in [1..n -> sel] :
                      /\ \A i, j \in 1..n : i # j => ix[i] # ix[j]
                      /\ ordered_desc(rows, ix)}
        k == IF limit < 0 \/ limit > n THEN n ELSE limit
    IN {[i \in 1..k |-> row_to_expense(rows[ix[i]])] : ix \in orders}

\* LimitsService.get_category_limit over MONTHLY_LIMITS, in hundredths
MONTHLY_LIMITS ==
    [c \in {"needs:food", "needs:transport", "wants:electronics", "fun:fastfood"} |->
        IF c = "needs:food" THEN 1200000
        ELSE IF c = "fun:fastfood" THEN 200000 ELSE 100000]
get_category_limit(c) == dict_get(MONTHLY_LIMITS, c, 0)

\* ------------------------------------------------------------------------
\* State
\* ------------------------------------------------------------------------
VARIABLES
    fn,           \* SpecFn: a pure function applied to an input text
    ctor,         \* position in ExpenseClassifier.__init__ / init_classifier
    inst,         \* the ExpenseClassifier instance: "none" or "live"
    model_data,   \* self._model_data
    pc,           \* position of the running predict / classify call
    text,         \* argument of the call
    rule_result,  \* locals of predict
    cleaned_text,
    query,
    scores,
    best_idx,
    confidence,
    result,       \* value returned by predict
    code,         \* value returned by classify
    nClean,       \* clean_text invocations in this call
    nEncode,      \* model.encode invocations in this call
    enc,          \* the backend's fixed answers, where the behaviour fixes them
    log,          \* SpecHist: the <<text, code>> of the classify calls that returned
    db,           \* the expenses table: the rows inserted so far, in insertion order
    now,          \* the clock: position of datetime.now() on the Timeline
    bot,          \* the running handle_expense call: position and locals
    out,          \* SpecRepo: the last repository query and what it returned
    calls         \* SpecConc: the frames of the concurrent classify calls

locals == <<rule_result, cleaned_text, query, scores, best_idx, confidence, result>>
callVars == <<pc, text, locals, code, nClean, nEncode>>
objVars == <<ctor, inst, model_data>>
appVars == <<db, now, bot, out, calls>>
vars == <<fn, objVars, callVars, enc, log, appVars>>

FnOff ==
    [pc |-> "off", x |-> <<>>, cleaned |-> <<>>, twice |-> <<>>, rule |-> None,
     rule_cleaned |-> None, parsed |-> ParseError(None)]

\* the call variables before any call
NoCall ==
    /\ pc = "idle"
    /\ text = <<>>
    /\ rule_result = None
    /\ cleaned_text = <<>>
    /\ query = <<>>
    /\ scores = <<>>
    /\ best_idx = 0
    /\ confidence = 0
    /\ result = None
    /\ code = None
    /\ nClean = 0
    /\ nEncode = 0

\* the clock: the instants datetime.now() returns, in order
Timeline ==
    << datetime(2024, 1, 15, 10, 30, 0, 500000),
       datetime(2024, 12, 31, 23, 59, 59, 999999),
       datetime(2025, 1, 1, 0, 0, 0, 0),
       datetime(2025, 1, 1, 0, 0, 0, 1) >>

\* handle_expense before any message: its locals, the messages handled so
\* far (n) and the table as it was when the current message arrived (db0)
NoReply == [kind |-> "none", text |-> None]
BotOff ==
    [pc |-> "idle", n |-> 0, db0 |-> <<>>, user_id |-> 0, text |-> <<>>,
     description |-> <<>>, amount |-> FloatError, error |-> None,
     category_code |-> None, classified |-> FALSE, created_at |-> 0, month |-> 0, year |-> 0,
     spent_in_category |-> 0, limit |-> 0, remaining |-> 0, status_emoji |-> None,
     reply |-> NoReply]

\* no repository query made yet
OutOff ==
    [op |-> "none", user_id |-> 0, month |-> 0, year |-> 0, limit |-> 0,
     summary |-> <<>>, expenses |-> <<>>]

\* the application around the classifier, before it does anything
AppOff ==
    /\ db = <<>>
    /\ now = 1
    /\ bot = BotOff
    /\ out = OutOff
    /\ calls = <<>>

\* ------------------------------------------------------------------------
\* SpecFn: clean_text and hard_rules_match applied to bounded inputs
\* ------------------------------------------------------------------------
InitFn ==
    /\ \E t \in TextsUpTo(MaxPieces) : fn = [FnOff EXCEPT !.pc = "in", !.x = t]
    /\ ctor = "start" /\ inst = "none" /\ model_data = NoModelData
    /\ NoCall
    /\ enc = <<>> /\ log = <<>>
    /\ AppOff

FnCleanText ==
    /\ fn.pc = "in"
    /\ fn' = [fn EXCEPT !.pc = "cleaned", !.cleaned = clean_text(fn.x)]
    /\ UNCHANGED <<objVars, callVars, enc, log, appVars>>

FnCleanAgain ==
    /\ fn.pc = "cleaned"
    /\ fn' = [fn EXCEPT !.pc = "twice", !.twice = clean_text(fn.cleaned)]
    /\ UNCHANGED <<objVars, callVars, enc, log, appVars>>

FnHardRules ==
    /\ fn.pc = "in"
    /\ fn' = [fn EXCEPT !.pc = "matched", !.rule = hard_rules_match(fn.x)]
    /\ UNCHANGED <<objVars, callVars, enc, log, appVars>>

\* hard_rules_match(clean_text(x)), next to hard_rules_match(x)
FnHardRulesCleaned ==
    /\ fn.pc = "matched"
    /\ fn' = [fn EXCEPT !.pc = "matched_cleaned", !.cleaned = clean_text(fn.x),
                        !.rule_cleaned = hard_rules_match(clean_text(fn.x))]
    /\ UNCHANGED <<objVars, callVars, enc, log, appVars>>

NextFn == FnCleanText \/ FnCleanAgain \/ FnHardRules \/ FnHardRulesCleaned

SpecFn == InitFn /\ [][NextFn]_vars

\* ------------------------------------------------------------------------
\* SpecParse: parse_expense_message applied to bounded messages
\* ------------------------------------------------------------------------
InitParse ==
    /\ \E t \in MsgTextsUpTo(MaxMsgPieces) : fn = [FnOff EXCEPT !.pc = "in", !.x = t]
    /\ ctor = "start" /\ inst = "none" /\ model_data = NoModelData
    /\ NoCall
    /\ enc = <<>> /\ log = <<>>
    /\ AppOff

FnParse ==
    /\ fn.pc = "in"
    /\ fn' = [fn EXCEPT !.pc = "parsed", !.parsed = parse_expense_message(fn.x)]
    /\ UNCHANGED <<objVars, callVars, enc, log, appVars>>

NextParse == FnParse

SpecParse == InitParse /\ [][NextParse]_vars

\* ------------------------------------------------------------------------
\* Construction: ExpenseClassifier.__init__ and init_classifier
\* ------------------------------------------------------------------------
\* entering predict(model_data, t)
enter_predict(t) ==
    /\ pc' = "rules"
    /\ text' = t
    /\ rule_result' = None
    /\ cleaned_text' = <<>>
    /\ query' = <<>>
    /\ scores' = <<>>
    /\ best_idx' = 0
    /\ confidence' = 0
    /\ result' = None
    /\ code' = None
    /\ nClean' = 0
    /\ nEncode' = 0

\* the call is over: its frame and locals are gone
leave_call ==
    /\ pc' = "idle"
    /\ text' = <<>>
    /\ rule_result' = None
    /\ cleaned_text' = <<>>
    /\ query' = <<>>
    /\ scores' = <<>>
    /\ best_idx' = 0
    /\ confidence' = 0
    /\ result' = None
    /\ code' = None
    /\ nClean' = 0
    /\ nEncode' = 0

\* SentenceTransformer(model_name, device=device) returns
LoadModel ==
    /\ ctor = "start"
    /\ ctor' = "loaded"
    /\ UNCHANGED <<fn, inst, model_data, callVars, enc, log, appVars>>

\* a variant that swallows the failure and goes on with an empty bundle
LoadModelFails_swallow ==
    /\ ctor = "start"
    /\ ctor' = "done"
    /\ inst' = "live"
    /\ UNCHANGED <<fn, model_data, callVars, enc, log, appVars>>

\* SentenceTransformer(...) raises: nothing catches it in init_classifier or
\* __init__, the constructor is left by the exception
LoadModelFails ==
    /\ ctor = "start"
    /\ ctor' = "failed"
    /\ UNCHANGED <<fn, inst, model_data, callVars, enc, log, appVars>>

\* the anchor loop, model.encode(all_phrases), F.normalize, the dataclass,
\* the assignment to self._model_data, and the entry into the warm-up predict
BuildIndex ==
    /\ ctor = "loaded"
    /\ model_data' = init_classifier(CATEGORY_ANCHORS)
    /\ ctor' = "warmup"
    /\ enter_predict(WARMUP_TEXT)
    /\ UNCHANGED <<fn, inst, enc, log, appVars>>

\* model.encode(all_phrases) raises
EncodeAnchorsFails ==
    /\ ctor = "loaded"
    /\ ctor' = "failed"
    /\ UNCHANGED <<fn, inst, model_data, callVars, enc, log, appVars>>

\* the warm-up predict returned, its result is dropped: __init__ returns,
\* the instance exists
WarmupDone ==
    /\ ctor = "warmup"
    /\ pc = "predicted"
    /\ ctor' = "done"
    /\ inst' = "live"
    /\ leave_call
    /\ UNCHANGED <<fn, model_data, enc, log, appVars>>

\* the warm-up predict raised: __init__ is left by the exception
WarmupFails ==
    /\ ctor = "warmup"
    /\ pc = "raised"
    /\ ctor' = "failed"
    /\ leave_call
    /\ UNCHANGED <<fn, inst, model_data, enc, log, appVars>>

\* ------------------------------------------------------------------------
\* predict, statement by statement
\* ------------------------------------------------------------------------
\* a variant that encodes the text before it looks at the rules
RuleStep_eager ==
    /\ pc = "rules"
    /\ nEncode' = nEncode + 1
    /\ LET r == hard_rules_match(text) IN
        /\ rule_result' = r
        /\ IF truthy(r)
           THEN /\ result' = r
                /\ pc' = "predicted"
           ELSE /\ result' = result
                /\ pc' = "clean"
    /\ UNCHANGED <<fn, objVars, text, cleaned_text, query, scores, best_idx,
                   confidence, code, nClean, enc, log, appVars>>

\* if rule_result := hard_rules_match(text): return rule_result
RuleStep ==
    /\ pc = "rules"
    /\ LET r == hard_rules_match(text) IN
        /\ rule_result' = r
        /\ IF truthy(r)
           THEN /\ result' = r
                /\ pc' = "predicted"
           ELSE /\ result' = result
                /\ pc' = "clean"
    /\ UNCHANGED <<fn, objVars, text, cleaned_text, query, scores, best_idx,
                   confidence, code, nClean, nEncode, enc, log, appVars>>

\* cleaned_text = clean_text(text); query = f"query: {cleaned_text}"
CleanStep ==
    /\ pc = "clean"
    /\ cleaned_text' = clean_text(text)
    /\ query' = QUERY_PREFIX \o cleaned_text'
    /\ nClean' = nClean + 1
    /\ pc' = "encode"
    /\ UNCHANGED <<fn, objVars, text, rule_result, scores, best_idx, confidence,
                   result, code, nEncode, enc, log, appVars>>

\* the answers the backend may give to q
EncodeOutcomes(q) ==
    IF q \in DOMAIN enc THEN {enc[q]} ELSE ScoreVectors(model_data.rows)

\* text_emb = model.encode(query); F.normalize; scores = torch.mm(...)[0]
EncodeStep ==
    /\ pc = "encode"
    /\ model_data.model # None
    /\ \E s \in EncodeOutcomes(query) : scores' = s
    /\ nEncode' = nEncode + 1
    /\ pc' = "score"
    /\ UNCHANGED <<fn, objVars, text, rule_result, cleaned_text, query, best_idx,
                   confidence, result, code, nClean, enc, log, appVars>>

\* a variant that tries the backend once more after a failure
EncodeRaises_retry ==
    /\ pc = "encode"
    /\ nEncode' = nEncode + 1
    /\ pc' = IF nEncode = 0 THEN "encode" ELSE "raised"
    /\ UNCHANGED <<fn, objVars, text, locals, code, nClean, enc, log, appVars>>

\* model.encode(query) raises (backend failure, or no model to call)
EncodeRaises ==
    /\ pc = "encode"
    /\ nEncode' = nEncode + 1
    /\ pc' = "raised"
    /\ UNCHANGED <<fn, objVars, text, locals, code, nClean, enc, log, appVars>>

\* a variant without the threshold test
ThresholdStep_nothr ==
    /\ pc = "score"
    /\ LET b == argmax(scores) IN
        /\ best_idx' = b
        /\ confidence' = scores[b]
        /\ result' = IF FALSE
                     THEN "UNKNOWN"
                     ELSE model_data.anchor_to_cat[b]
    /\ pc' = "predicted"
    /\ UNCHANGED <<fn, objVars, text, rule_result, cleaned_text, query, scores,
                   code, nClean, nEncode, enc, log, appVars>>

\* a variant that compares with <=
ThresholdStep_le ==
    /\ pc = "score"
    /\ LET b == argmax(scores) IN
        /\ best_idx' = b
        /\ confidence' = scores[b]
        /\ result' = IF scores[b] <= model_data.threshold
                     THEN "UNKNOWN"
                     ELSE model_data.anchor_to_cat[b]
    /\ pc' = "predicted"
    /\ UNCHANGED <<fn, objVars, text, rule_result, cleaned_text, query, scores,
                   code, nClean, nEncode, enc, log, appVars>>

\* a variant whose threshold moves with the calls already served
ThresholdStep_drift ==
    /\ pc = "score"
    /\ LET b == argmax(scores) IN
        /\ best_idx' = b
        /\ confidence' = scores[b]
        /\ result' = IF scores[b] < model_data.threshold + Len(log)
                     THEN "UNKNOWN"
                     ELSE model_data.anchor_to_cat[b]
    /\ pc' = "predicted"
    /\ UNCHANGED <<fn, objVars, text, rule_result, cleaned_text, query, scores,
                   code, nClean, nEncode, enc, log, appVars>>

\* best_idx = argmax(scores); confidence = scores[best_idx];
\* if confidence < threshold: return UNKNOWN; return anchor_to_cat[best_idx]
ThresholdStep ==
    /\ pc = "score"
    /\ LET b == argmax(scores) IN
        /\ best_idx' = b
        /\ confidence' = scores[b]
        /\ result' = IF scores[b] < model_data.threshold
                     THEN "UNKNOWN"
                     ELSE model_data.anchor_to_cat[b]
    /\ pc' = "predicted"
    /\ UNCHANGED <<fn, objVars, text, rule_result, cleaned_text, query, scores,
                   code, nClean, nEncode, enc, log, appVars>>

\* ------------------------------------------------------------------------
\* ExpenseClassifier.classify
\* ------------------------------------------------------------------------
\* classifier.classify(t) is called: predict(self._model_data, t) is entered
Classify(T) ==
    /\ inst = "live"
    /\ pc = "idle"
    /\ \E t \in T : enter_predict(t)
    /\ UNCHANGED <<fn, objVars, enc>>

\* a variant that moves the threshold to the score of a rejected text
ClassifyReturn_adapt ==
    /\ inst = "live"
    /\ pc = "predicted"
    /\ code' = Category[result]
    /\ pc' = "returned"
    /\ model_data' = IF result = "UNKNOWN" /\ nEncode > 0
                     THEN [model_data EXCEPT !.threshold = confidence]
                     ELSE model_data
    /\ UNCHANGED <<fn, ctor, inst, text, locals, nClean, nEncode, enc>>

\* return str(category.value)
ClassifyReturn ==
    /\ inst = "live"
    /\ pc = "predicted"
    /\ code' = Category[result]
    /\ pc' = "returned"
    /\ UNCHANGED <<fn, objVars, text, locals, nClean, nEncode, enc>>

\* predict raised: classify is left by the exception
ClassifyRaise ==
    /\ inst = "live"
    /\ pc = "raised"
    /\ pc' = "failed"
    /\ UNCHANGED <<fn, objVars, text, locals, code, nClean, nEncode, enc>>

\* the caller has taken the code (or the exception): the call is over
ClassifyDone ==
    /\ inst = "live"
    /\ pc \in {"returned", "failed"}
    /\ leave_call
    /\ UNCHANGED <<fn, objVars, enc>>

\* ------------------------------------------------------------------------
\* Spec: construction, then classify calls on bounded texts
\* ------------------------------------------------------------------------
Init ==
    /\ fn = FnOff
    /\ ctor = "start" /\ inst = "none" /\ model_data = NoModelData
    /\ NoCall
    /\ enc = <<>>
    /\ log = <<>>
    /\ AppOff

Construct ==
    \/ LoadModel
    \/ LoadModelFails
    \/ BuildIndex
    \/ EncodeAnchorsFails
    \/ WarmupDone
    \/ WarmupFails

Predict ==
    \/ RuleStep
    \/ CleanStep
    \/ EncodeStep
    \/ EncodeRaises
    \/ ThresholdStep

Next ==
    \/ Construct
    \/ Predict
    \/ (Classify(TextsUpTo(MaxCallPieces) \cup ExampleTexts) /\ UNCHANGED <<log, appVars>>)
    \/ (ClassifyReturn /\ UNCHANGED <<log, appVars>>)
    \/ (ClassifyRaise /\ UNCHANGED <<log, appVars>>)
    \/ (ClassifyDone /\ UNCHANGED <<log, appVars>>)

Spec == Init /\ [][Next]_vars

\* ------------------------------------------------------------------------
\* SpecHist: a backend with fixed answers, and the record of returned calls
\* ------------------------------------------------------------------------
\* "kofe", "za kofe", "VPN", ""
HistTexts == {P_kofe, P_za \o P_space \o P_kofe, P_VPN, <<>>}
HistQueries == {QUERY_PREFIX \o clean_text(t) : t \in HistTexts}
HistScoreVectors(n) ==
    { [r \in 1..n |-> ScoreFloor],
      ScoreVector(n, 4, threshold, 4, threshold),
      ScoreVector(n, n, threshold + 1, n, threshold + 1) }

InitHist ==
    /\ fn = FnOff
    /\ ctor = "start" /\ inst = "none" /\ model_data = NoModelData
    /\ NoCall
    /\ enc \in [HistQueries -> HistScoreVectors(Len(build_anchor_to_cat(CATEGORY_ANCHORS, 1)))]
    /\ log = <<>>
    /\ AppOff

NextHist ==
    \/ Construct
    \/ Predict
    \/ (Len(log) < MaxCalls /\ Classify(HistTexts) /\ UNCHANGED <<log, appVars>>)
    \/ (ClassifyReturn /\ log' = Append(log, [text |-> text, code |-> code'])
                      /\ UNCHANGED appVars)
    \/ (ClassifyRaise /\ UNCHANGED <<log, appVars>>)
    \/ (ClassifyDone /\ UNCHANGED <<log, appVars>>)

SpecHist == InitHist /\ [][NextHist]_vars

\* ------------------------------------------------------------------------
\* SpecRepo: the repository under any sequence of adds and queries
\* ------------------------------------------------------------------------
\* rows the table may hold
MaxRecords == 2

RepoUsers == {1, 2}
RepoAmounts == {float(M_200), float(replace_comma(M_1c5)), float(W_nan)}
RepoCodes == {Category.FOOD, Category.UNKNOWN}
RepoDates == {Timeline[i] : i \in 1..Len(Timeline)}
RepoMonths == {<<d.month, d.year>> : d \in RepoDates} \cup {<<2, 2025>>}
\* limit of show_history, and limits that cut the list short
HISTORY_LIMIT == 10
RepoLimits == {0, 1, 2, HISTORY_LIMIT}

InitRepo ==
    /\ fn = FnOff
    /\ ctor = "start" /\ inst = "none" /\ model_data = NoModelData
    /\ NoCall
    /\ enc = <<>>
    /\ log = <<>>
    /\ AppOff

\* repo.add(expense); the result of an earlier query is no longer held
RepoAdd ==
    /\ Len(db) < MaxRecords
    /\ \E u \in RepoUsers, a \in RepoAmounts, c \in RepoCodes, t \in RepoDates :
          db' = add(db, Expense(u, a, P_kofe, c, t)).rows
    /\ out' = OutOff
    /\ UNCHANGED <<fn, objVars, callVars, enc, log, now, bot, calls>>

\* summary = repo.get_month_summary(user_id, month, year), by a caller that
\* holds no earlier result
RepoMonthSummary ==
    /\ out = OutOff
    /\ \E u \in RepoUsers, my \in RepoMonths :
          out' = [OutOff EXCEPT !.op = "get_month_summary", !.user_id = u,
                                !.month = my[1], !.year = my[2],
                                !.summary = get_month_summary(db, u, my[1], my[2])]
    /\ UNCHANGED <<fn, objVars, callVars, enc, log, db, now, bot, calls>>

\* expenses = repo.get_last_expenses(user_id, limit)
RepoLastExpenses ==
    /\ out = OutOff
    /\ \E u \in RepoUsers, n \in RepoLimits :
          \E es \in get_last_expenses(db, u, n) :
              out' = [OutOff EXCEPT !.op = "get_last_expenses", !.user_id = u,
                                    !.limit = n, !.expenses = es]
    /\ UNCHANGED <<fn, objVars, callVars, enc, log, db, now, bot, calls>>

NextRepo == RepoAdd \/ RepoMonthSummary \/ RepoLastExpenses

SpecRepo == InitRepo /\ [][NextRepo]_vars

\* ------------------------------------------------------------------------
\* SpecBot: handle_expense on bounded messages, one message at a time
\* ------------------------------------------------------------------------
\* messages handled in one run
MaxMessages == 2

W_200 == P_space \o M_200
BotUsers == {1}
\* "", "kofe", "kofe 200", "kofe. 1,5", "kofe 0", "kofe nan", "kofe kofe 200",
\* "VPN 200"
BotMessages ==
    { <<>>, P_kofe, P_kofe \o W_200, P_kofe \o <<DOT>> \o P_space \o M_1c5,
      P_kofe \o P_space \o M_0, P_kofe \o P_space \o W_nan,
      P_kofe \o P_space \o P_kofe \o W_200, P_VPN \o W_200 }

\* the instance the module built at import time
LiveModel == init_classifier(CATEGORY_ANCHORS)

InitBot ==
    /\ fn = FnOff
    /\ ctor = "done" /\ inst = "live" /\ model_data = LiveModel
    /\ NoCall
    /\ enc = <<>>
    /\ log = <<>>
    /\ AppOff

\* datetime.now() moves on
Tick ==
    /\ now < Len(Timeline)
    /\ now' = now + 1
    /\ UNCHANGED <<fn, objVars, callVars, enc, log, db, bot, out, calls>>

\* a text message of user u arrives; a message without text is dropped
BotReceive ==
    /\ bot.pc \in {"idle", "done"}
    /\ bot.n < MaxMessages
    /\ \E u \in BotUsers, msg \in BotMessages :
          bot' = [BotOff EXCEPT !.n = bot.n + 1, !.db0 = db, !.user_id = u,
                                !.text = strip(msg),
                                !.pc = IF msg = <<>> THEN "done" ELSE "parse"]
    /\ UNCHANGED <<fn, objVars, callVars, enc, log, db, now, out, calls>>

\* description, amount = await parse_expense_message(text)
BotParse ==
    /\ bot.pc = "parse"
    /\ LET p == parse_expense_message(bot.text) IN
          bot' = IF p.ok
                 THEN [bot EXCEPT !.description = p.description, !.amount = p.amount,
                                  !.pc = "classify"]
                 ELSE [bot EXCEPT !.error = p.error, !.pc = "value_error"]
    /\ UNCHANGED <<fn, objVars, callVars, enc, log, db, now, out, calls>>

\* classifier.classify(description) is called ...
BotClassify ==
    /\ bot.pc = "classify"
    /\ Classify({bot.description})
    /\ bot' = [bot EXCEPT !.classified = TRUE, !.pc = "classifying"]
    /\ UNCHANGED <<log, db, now, out, calls>>

\* ... and returns category_code
BotClassified ==
    /\ bot.pc = "classifying"
    /\ pc = "returned"
    /\ ClassifyDone
    /\ bot' = [bot EXCEPT !.category_code = code, !.pc = "add"]
    /\ UNCHANGED <<log, db, now, out, calls>>

\* ... or raises
BotClassifyRaised ==
    /\ bot.pc = "classifying"
    /\ pc = "failed"
    /\ ClassifyDone
    /\ bot' = [bot EXCEPT !.pc = "exception"]
    /\ UNCHANGED <<log, db, now, out, calls>>

\* expense = Expense(..., created_at=datetime.now()); repo.add(expense)
BotAdd ==
    /\ bot.pc = "add"
    /\ LET expense == Expense(bot.user_id, bot.amount, bot.description,
                              bot.category_code, Timeline[now])
           r == add(db, expense)
       IN /\ db' = r.rows
          /\ bot' = [bot EXCEPT !.created_at = now,
                                !.pc = IF r.ok THEN "month" ELSE "exception"]
    /\ UNCHANGED <<fn, objVars, callVars, enc, log, now, out, calls>>

\* repo.add raises before anything is committed (sqlite3.Error)
BotAddRaises ==
    /\ bot.pc = "add"
    /\ bot' = [bot EXCEPT !.created_at = now, !.pc = "exception"]
    /\ UNCHANGED <<fn, objVars, callVars, enc, log, db, now, out, calls>>

\* the arguments datetime.now().month and datetime.now().year, in this order
BotMonth ==
    /\ bot.pc = "month"
    /\ bot' = [bot EXCEPT !.month = Timeline[now].month, !.pc = "year"]
    /\ UNCHANGED <<fn, objVars, callVars, enc, log, db, now, out, calls>>

BotYear ==
    /\ bot.pc = "year"
    /\ bot' = [bot EXCEPT !.year = Timeline[now].year, !.pc = "summary"]
    /\ UNCHANGED <<fn, objVars, callVars, enc, log, db, now, out, calls>>

\* remaining > limit * 0.5, in hundredths
status_emoji(remaining, limit) ==
    IF remaining < 0 THEN "red" ELSE IF 2 * remaining > limit THEN "green" ELSE "yellow"

\* a variant whose summary is the one of the table as the message found it
BotSummary_early ==
    /\ bot.pc = "summary"
    /\ LET summary == get_month_summary(bot.db0, bot.user_id, bot.month, bot.year)
           spent == dict_get(summary, bot.category_code, 0)
           limit == get_category_limit(bot.category_code)
           remaining == IF limit # 0 THEN limit - spent ELSE 0
       IN bot' = [bot EXCEPT !.spent_in_category = spent, !.limit = limit,
                             !.remaining = remaining,
                             !.status_emoji = status_emoji(remaining, limit),
                             !.pc = "reply"]
    /\ UNCHANGED <<fn, objVars, callVars, enc, log, db, now, out, calls>>

\* summary = repo.get_month_summary(...); spent_in_category; limit;
\* remaining; status_emoji; response
BotSummary ==
    /\ bot.pc = "summary"
    /\ LET summary == get_month_summary(db, bot.user_id, bot.month, bot.year)
           spent == dict_get(summary, bot.category_code, 0)
           limit == get_category_limit(bot.category_code)
           remaining == IF limit # 0 THEN limit - spent ELSE 0
       IN bot' = [bot EXCEPT !.spent_in_category = spent, !.limit = limit,
                             !.remaining = remaining,
                             !.status_emoji = status_emoji(remaining, limit),
                             !.pc = "reply"]
    /\ UNCHANGED <<fn, objVars, callVars, enc, log, db, now, out, calls>>

\* repo.get_month_summary raises (sqlite3.Error)
BotSummaryRaises ==
    /\ bot.pc = "summary"
    /\ bot' = [bot EXCEPT !.pc = "exception"]
    /\ UNCHANGED <<fn, objVars, callVars, enc, log, db, now, out, calls>>

\* parse_mode=ParseMode.MARKDOWN_V2: the characters # + - = { } . ! are
\* reserved and stand in a message only behind a backslash or inside a code
\* span ("Character '.' is reserved and must be escaped")
MARKDOWN_V2_RESERVED == {35, 43, 45, 61, 123, 125, 46, 33}

\* the response puts the description, as typed, between '*' and '*'; the
\* other placeholders are inside code spans
markdown_v2_parses(description) ==
    \A i \in 1..Len(description) : description[i] \notin MARKDOWN_V2_RESERVED

\* await update.message.reply_text(response, parse_mode=MARKDOWN_V2)
BotReply ==
    /\ bot.pc = "reply"
    /\ markdown_v2_parses(bot.description)
    /\ bot' = [bot EXCEPT !.reply = [kind |-> "recorded", text |-> bot.category_code],
                          !.pc = "done"]
    /\ UNCHANGED <<fn, objVars, callVars, enc, log, db, now, out, calls>>

\* reply_text raises: telegram.error.BadRequest when the response does not
\* parse, a NetworkError or TimedOut at any time
BotReplyRaises ==
    /\ bot.pc = "reply"
    /\ bot' = [bot EXCEPT !.pc = "exception"]
    /\ UNCHANGED <<fn, objVars, callVars, enc, log, db, now, out, calls>>

\* except ValueError as e: reply_text(str(e))
BotValueError ==
    /\ bot.pc = "value_error"
    /\ bot' = [bot EXCEPT !.reply = [kind |-> "hint", text |-> bot.error],
                          !.pc = "done"]
    /\ UNCHANGED <<fn, objVars, callVars, enc, log, db, now, out, calls>>

\* except Exception: reply_text(the generic failure text)
BotException ==
    /\ bot.pc = "exception"
    /\ bot' = [bot EXCEPT !.reply = [kind |-> "failure", text |-> None], !.pc = "done"]
    /\ UNCHANGED <<fn, objVars, callVars, enc, log, db, now, out, calls>>

NextBot ==
    \/ Tick
    \/ BotReceive
    \/ BotParse
    \/ BotClassify
    \/ Predict
    \/ (ClassifyReturn /\ UNCHANGED <<log, appVars>>)
    \/ (ClassifyRaise /\ UNCHANGED <<log, appVars>>)
    \/ BotClassified
    \/ BotClassifyRaised
    \/ BotAdd
    \/ BotAddRaises
    \/ BotMonth
    \/ BotYear
    \/ BotSummary
    \/ BotSummaryRaises
    \/ BotReply
    \/ BotReplyRaises
    \/ BotValueError
    \/ BotException

SpecBot == InitBot /\ [][NextBot]_vars

\* ------------------------------------------------------------------------
\* SpecConc: several classify calls on one instance, their steps interleaved
\* ------------------------------------------------------------------------
\* concurrent classify calls
NumThreads == 2

\* the frame of one call: the locals of classify and predict
NoFrame ==
    [pc |-> "idle", text |-> <<>>, rule_result |-> None, cleaned_text |-> <<>>,
     query |-> <<>>, scores |-> <<>>, best_idx |-> 0, confidence |-> 0,
     result |-> None, code |-> None, nEncode |-> 0]

\* the backends of SpecHist; the answer to the query of "VPN" is left at the
\* floor, the rule for "vpn" keeps that text from ever being encoded
ConcBackends ==
    {e \in [HistQueries -> HistScoreVectors(LiveModel.rows)] :
        e[QUERY_PREFIX \o clean_text(P_VPN)] = [r \in 1..LiveModel.rows |-> ScoreFloor]}

InitConc ==
    /\ fn = FnOff
    /\ ctor = "done" /\ inst = "live" /\ model_data = LiveModel
    /\ NoCall
    /\ enc \in ConcBackends
    /\ log = <<>>
    /\ db = <<>> /\ now = 1 /\ bot = BotOff /\ out = OutOff
    /\ calls = [c \in 1..NumThreads |-> NoFrame]

\* what a step of a call leaves alone: everything but the frames
concFrame == <<fn, objVars, callVars, enc, log, db, now, bot, out>>

\* thread c calls classifier.classify(t)
ConcClassify(c) ==
    /\ inst = "live"
    /\ calls[c].pc = "idle"
    /\ \E t \in HistTexts : calls' = [calls EXCEPT ![c] = [NoFrame EXCEPT !.pc = "rules", !.text = t]]
    /\ UNCHANGED concFrame

\* if rule_result := hard_rules_match(text): return rule_result
ConcRuleStep(c) ==
    /\ calls[c].pc = "rules"
    /\ LET r == hard_rules_match(calls[c].text) IN
          calls' = [calls EXCEPT ![c] =
                      IF truthy(r)
                      THEN [@ EXCEPT !.rule_result = r, !.result = r, !.pc = "predicted"]
                      ELSE [@ EXCEPT !.rule_result = r, !.pc = "clean"]]
    /\ UNCHANGED concFrame

\* a variant that keeps the query in one variable shared by all calls
ConcCleanStep_shared(c) ==
    /\ calls[c].pc = "clean"
    /\ LET ct == clean_text(calls[c].text) IN
          calls' = [d \in DOMAIN calls |->
                      IF d = c
                      THEN [calls[d] EXCEPT !.cleaned_text = ct,
                                            !.query = QUERY_PREFIX \o ct, !.pc = "encode"]
                      ELSE [calls[d] EXCEPT !.query = QUERY_PREFIX \o ct]]
    /\ UNCHANGED concFrame

\* cleaned_text = clean_text(text); query = f"query: {cleaned_text}"
ConcCleanStep(c) ==
    /\ calls[c].pc = "clean"
    /\ LET ct == clean_text(calls[c].text) IN
          calls' = [calls EXCEPT ![c] =
                      [@ EXCEPT !.cleaned_text = ct, !.query = QUERY_PREFIX \o ct,
                                !.pc = "encode"]]
    /\ UNCHANGED concFrame

\* text_emb = model.encode(query); F.normalize; scores = torch.mm(...)[0]
ConcEncodeStep(c) ==
    /\ calls[c].pc = "encode"
    /\ model_data.model # None
    /\ \E s \in EncodeOutcomes(calls[c].query) :
          calls' = [calls EXCEPT ![c] =
                      [@ EXCEPT !.scores = s, !.nEncode = @ + 1, !.pc = "score"]]
    /\ UNCHANGED concFrame

\* model.encode(query) raises
ConcEncodeRaises(c) ==
    /\ calls[c].pc = "encode"
    /\ calls' = [calls EXCEPT ![c] = [@ EXCEPT !.nEncode = @ + 1, !.pc = "raised"]]
    /\ UNCHANGED concFrame

\* best_idx = argmax(scores); confidence = scores[best_idx];
\* if confidence < threshold: return UNKNOWN; return anchor_to_cat[best_idx]
ConcThresholdStep(c) ==
    /\ calls[c].pc = "score"
    /\ LET b == argmax(calls[c].scores) IN
          calls' = [calls EXCEPT ![c] =
                      [@ EXCEPT !.best_idx = b, !.confidence = calls[c].scores[b],
                                !.result = IF calls[c].scores[b] < model_data.threshold
                                           THEN "UNKNOWN"
                                           ELSE model_data.anchor_to_cat[b],
                                !.pc = "predicted"]]
    /\ UNCHANGED concFrame

\* return str(category.value)
ConcReturn(c) ==
    /\ calls[c].pc = "predicted"
    /\ calls' = [calls EXCEPT ![c] = [@ EXCEPT !.code = Category[calls[c].result], !.pc = "returned"]]
    /\ UNCHANGED concFrame

\* predict raised: classify is left by the exception
ConcRaise(c) ==
    /\ calls[c].pc = "raised"
    /\ calls' = [calls EXCEPT ![c] = [@ EXCEPT !.pc = "failed"]]
    /\ UNCHANGED concFrame



NextConc ==
    \/ \E c \in 1..NumThreads : ConcClassify(c)
    \/ \E c \in 1..NumThreads : ConcRuleStep(c)
    \/ \E c \in 1..NumThreads : ConcCleanStep(c)
    \/ \E c \in 1..NumThreads : ConcEncodeStep(c)
    \/ \E c \in 1..NumThreads : ConcEncodeRaises(c)
    \/ \E c \in 1..NumThreads : ConcThresholdStep(c)
    \/ \E c \in 1..NumThreads : ConcReturn(c)
    \/ \E c \in 1..NumThreads : ConcRaise(c)

SpecConc == InitConc /\ [][NextConc]_vars

\* ------------------------------------------------------------------------
\* Vocabulary of the properties
\* ------------------------------------------------------------------------
\* t occurs in s as a substring
Occurs(t, s) ==
    \E a \in 0..Len(s) :
        /\ a + Len(t) <= Len(s)
        /\ \A k \in 1..Len(t) : s[a + k] = t[k]

\* the first position at which t occurs in s
FirstPos(t, s) ==
    CHOOSE a \in 0..Len(s) :
        /\ a + Len(t) <= Len(s)
        /\ \A k \in 1..Len(t) : s[a + k] = t[k]
        /\ \A b \in 0..(a - 1) : \E k \in 1..Len(t) : s[b + k] # t[k]

\* the rules (table positions) whose trigger occurs in the lower-cased text
Hits(t) == {k \in 1..Len(rules) : Occurs(rules[k].trigger, lower(t))}
FirstHit(t) == CHOOSE k \in Hits(t) : \A h \in Hits(t) : k <= h

\* separators of the normaliser, and the tokens of s as maximal runs of
\* non-separator characters, in order of their start position
IsSep(c) == c = BAR \/ isspace(c)
RunStarts(s) == {i \in 1..Len(s) : ~IsSep(s[i]) /\ (i = 1 \/ IsSep(s[i - 1]))}
RunEnd(s, i) ==
    CHOOSE j \in i..Len(s) :
        /\ \A k \in i..j : ~IsSep(s[k])
        /\ (j = Len(s) \/ IsSep(s[j + 1]))
NthStart(s, n) ==
    CHOOSE i \in RunStarts(s) : Cardinality({j \in RunStarts(s) : j < i}) = n - 1
TokenSeq(s) ==
    [n \in 1..Cardinality(RunStarts(s)) |-> SubSeq(s, NthStart(s, n), RunEnd(s, NthStart(s, n)))]
NotNoise(w) == w \notin noise

\* s has single spaces only between tokens, and nothing else to strip
WellSpaced(s) ==
    /\ \A i \in 1..Len(s) : s[i] # BAR /\ (isspace(s[i]) => s[i] = SPACE)
    /\ (s # <<>> => s[1] # SPACE /\ s[Len(s)] # SPACE)
    /\ \A i \in 1..(Len(s) - 1) : ~(s[i] = SPACE /\ s[i + 1] = SPACE)

\* text made only of whitespace, '|' and stop-words (in any letter case)
Degenerate(t) == \A n \in 1..Len(TokenSeq(lower(t))) : TokenSeq(lower(t))[n] \in noise

MaxScore(sc) == CHOOSE m \in {sc[i] : i \in 1..Len(sc)} : \A i \in 1..Len(sc) : sc[i] <= m
Codes == {Category[c] : c \in Categories}
SemanticDone == pc \in {"predicted", "returned"} /\ ~truthy(rule_result)
UserCall == ctor = "done"

\* ------------------------------------------------------------------------
\* Properties
\* ------------------------------------------------------------------------

\* C1 (Spec): rule precedence.  A classify call whose lower-cased text
\* contains a trigger never enters the semantic path and never raises, and
\* it returns the code of the category mapped to the matching rule (the first
\* matching rule of the table when several match), whatever the backend
\* would have answered; the two example texts give other:digital and
\* wants:electronics.
C1_RulePrecedence ==
    (UserCall /\ pc # "idle" /\ Hits(text) # {}) =>
        /\ pc \in {"rules", "predicted", "returned"}
        /\ scores = <<>>
        /\ (pc = "returned" => code = Category[rules[FirstHit(text)].cat])
        /\ (pc = "returned" /\ text = E_vpn => code = "other:digital")
        /\ (pc = "returned" /\ text = E_mysh => code = "wants:electronics")

\* an upper-case "VPN" text was classified as other:digital
C1_Witness ==
    /\ UserCall
    /\ pc = "returned"
    /\ text # lower(text)
    /\ Occurs(T_vpn, lower(text))
    /\ code = "other:digital"

\* C2 (SpecFn): first match wins in table order.  hard_rules_match returns
\* the category of the matching rule that comes first in the table, even when
\* the trigger of a later rule occurs earlier in the text, and returns None
\* when no trigger occurs.
C2_FirstMatchInTableOrder ==
    fn.pc = "matched" =>
        /\ (Hits(fn.x) = {} => fn.rule = None)
        /\ (Hits(fn.x) # {} => fn.rule = rules[FirstHit(fn.x)].cat)

\* two rules of different categories match, and the one that is later in the
\* table occurs earlier in the text
C2_Witness ==
    /\ fn.pc = "matched"
    /\ \E k \in Hits(fn.x) : \E h \in Hits(fn.x) :
          /\ k < h
          /\ rules[k].cat # rules[h].cat
          /\ FirstPos(rules[h].trigger, lower(fn.x)) < FirstPos(rules[k].trigger, lower(fn.x))
          /\ fn.rule = rules[k].cat

\* C3 (Spec): fast path.  A predict run in which the rule matcher returned a
\* category returns that category (classify: its code) with no clean_text
\* and no encode invocation; clean_text and encode are invoked only in runs
\* in which the rule matcher returned None.
C3_FastPath ==
    /\ (pc \in {"predicted", "returned"} /\ truthy(rule_result)) =>
          /\ nClean = 0
          /\ nEncode = 0
          /\ result = rule_result
          /\ (pc = "returned" => code = Category[rule_result])
    /\ (nClean > 0 \/ nEncode > 0) => (rule_result = None /\ Hits(text) = {})

\* a classify call returned on the rule path
C3_Witness ==
    /\ UserCall
    /\ pc = "returned"
    /\ truthy(rule_result)
    /\ nEncode = 0

\* C4 (Spec): semantic threshold rule.  When no rule matched, confidence is
\* the maximum score; the result is UNKNOWN if and only if that maximum is
\* strictly below the threshold 0.82, and otherwise it is the category the
\* parallel list holds at the winning row, a row carrying the maximum.
C4_ThresholdRule ==
    SemanticDone =>
        /\ model_data.threshold = threshold
        /\ confidence = MaxScore(scores)
        /\ scores[best_idx] = MaxScore(scores)
        /\ (result = "UNKNOWN" <=> MaxScore(scores) < threshold)
        /\ (MaxScore(scores) >= threshold => result = model_data.anchor_to_cat[best_idx])
        /\ (pc = "returned" => code = Category[result])

\* a classify call returned the category of a winning row other than the first
C4_Witness ==
    /\ UserCall
    /\ pc = "returned"
    /\ rule_result = None
    /\ MaxScore(scores) > threshold
    /\ best_idx > 1
    /\ code = Category[model_data.anchor_to_cat[best_idx]]
    /\ code # "unknown:check_me"

\* C5 as stated (Spec): a text without trigger whose maximum score equals the
\* threshold is classified unknown:check_me.
C5_Original ==
    (UserCall /\ pc = "returned" /\ Hits(text) = {} /\ MaxScore(scores) = threshold) =>
        code = "unknown:check_me"

\* C5 amended (Spec): a text without trigger whose maximum score equals the
\* threshold is not classified UNKNOWN; classify returns the code of the
\* category at the winning row.
C5_BoundaryIsAccepted ==
    (UserCall /\ pc = "returned" /\ Hits(text) = {} /\ MaxScore(scores) = threshold) =>
        /\ code # "unknown:check_me"
        /\ \E i \in 1..Len(scores) :
              /\ scores[i] = threshold
              /\ code = Category[model_data.anchor_to_cat[i]]

\* a call returned with the maximum score exactly at the threshold
C5_Witness ==
    /\ UserCall
    /\ pc = "returned"
    /\ Hits(text) = {}
    /\ confidence = threshold
    /\ code \in Codes \ {"unknown:check_me"}

\* C6 (SpecFn): normalisation is idempotent,
\* clean_text(clean_text(x)) = clean_text(x).
C6_Idempotent == fn.pc = "twice" => fn.twice = fn.cleaned

\* clean_text was applied twice to a text it changes and does not empty
C6_Witness ==
    /\ fn.pc = "twice"
    /\ fn.cleaned # fn.x
    /\ fn.cleaned # <<>>
    /\ Len(TokenSeq(lower(fn.x))) > Len(TokenSeq(fn.cleaned))

C8_DegenerateInput ==
    (pc # "idle" /\ Degenerate(text)) =>
        /\ (pc # "rules" => rule_result = None)
        /\ (pc \notin {"rules", "clean"} =>
              cleaned_text = <<>> /\ query = QUERY_PREFIX /\ nClean = 1)
        /\ (pc \in {"predicted", "returned"} =>
              /\ nEncode = 1
              /\ Len(scores) = model_data.rows
              /\ result \in Categories
              /\ (result = "UNKNOWN" <=> confidence < threshold))
        /\ (pc = "returned" => code \in Codes)
        /\ (pc \in {"raised", "failed"} => nEncode = 1 /\ scores = <<>>)

\* a classify call on a non-empty degenerate text returned a code
C8_Witness ==
    /\ UserCall
    /\ pc = "returned"
    /\ Degenerate(text)
    /\ text # <<>>
    /\ nEncode = 1
    /\ code \in Codes

\* C9 (SpecHist): determinism.  With a fixed classifier state and a backend
\* with fixed answers, any two classify calls with the same text return the
\* same code, whatever calls were served before or between them.
C9_Determinism ==
    \A i \in 1..Len(log) : \A j \in 1..Len(log) :
        log[i].text = log[j].text => log[i].code = log[j].code

\* the same text was classified on the semantic path before and after a call
\* with another text
C9_Witness ==
    /\ Len(log) >= 3
    /\ log[1].text = log[3].text
    /\ log[2].text # log[1].text
    /\ Hits(log[1].text) = {}
    /\ log[1].code # "unknown:check_me"

\* C10 (Spec): fatal startup failure.  When loading the model, encoding the
\* anchors or the warm-up fails, the constructor is left by the exception:
\* no instance exists then or later, and no classify call is ever served.
\* An instance exists only with the model loaded and the index built, and a
\* call runs only inside the constructor's warm-up or on a live instance.
C10_StartupFailureIsFatal ==
    /\ [](/\ (ctor = "failed" => inst = "none" /\ pc = "idle" /\ code = None)
          /\ (inst = "live" =>
                /\ ctor = "done"
                /\ model_data.model = "loaded"
                /\ model_data.rows = 38
                /\ Len(model_data.anchor_to_cat) = model_data.rows)
          /\ (pc # "idle" => ctor = "warmup" \/ inst = "live")
          /\ (pc # "idle" => model_data.model = "loaded"))
    /\ [][ctor = "failed" => (ctor' = "failed" /\ inst' = "none" /\ pc' = "idle")]_vars

\* the constructor failed before the index was built
C10_Witness ==
    /\ ctor = "failed"
    /\ inst = "none"
    /\ model_data = NoModelData

\* the records the message being handled has put into the table
NewRecords == {i \in (Len(bot.db0) + 1)..Len(db) : TRUE}

\* C11 (SpecBot): callers handle the UNKNOWN code distinctly.  When classify
\* returns unknown:check_me for a user's expense message, handle_expense
\* does not treat it as a normal bucket: it does not simply record the
\* expense under that code and send the reply it sends for any category.
C11_UnknownHandledDistinctly ==
    (bot.pc = "done" /\ bot.category_code = Category.UNKNOWN) =>
        ~(/\ bot.reply.kind = "recorded"
          /\ \E i \in NewRecords : db[i].category_code = Category.UNKNOWN)

\* a positive number written in digits with '.' or ',' as decimal separator
IsPositiveNumber(tok) ==
    LET seps == {i \in 1..Len(tok) : tok[i] \in {DOT, COMMA}} IN
    /\ tok # <<>>
    /\ \A i \in 1..Len(tok) : isdigit(tok[i]) \/ i \in seps
    /\ Cardinality(seps) <= 1
    /\ \A i \in seps : 1 < i /\ i < Len(tok)
    /\ \E i \in 1..Len(tok) : tok[i] \in 49..57

\* the parsed amount a is the number written by tok
IsValueOf(a, tok) ==
    LET seps == {i \in 1..Len(tok) : tok[i] \in {DOT, COMMA}} IN
    /\ a.kind = "finite"
    /\ ~a.neg
    /\ a.num = digits_value(SelectSeq(tok, isdigit))
    /\ a.scale = Cardinality({i \in 1..Len(tok) : \E j \in seps : j < i})

\* a message "<description> <amount>": at least two words, the last one a
\* positive number; its description is everything before the last word
MsgWords(m) == split(m)
MsgAmountWord(m) == MsgWords(m)[Len(MsgWords(m))]
MsgIsExpense(m) == Len(MsgWords(m)) >= 2 /\ IsPositiveNumber(MsgAmountWord(m))
MsgDescription(m) == rstrip(SubSeq(strip(m), 1, Len(strip(m)) - Len(MsgAmountWord(m))))

\* C12 (SpecParse): expense message parsing.  For every message
\* "<description> <amount>", the description being one or several words and
\* the amount a positive number with '.' or ',' as decimal separator,
\* parse_expense_message returns the description (the left part of the line)
\* and the amount (the right part).
C12_ParsesDescriptionAndAmount ==
    (fn.pc = "parsed" /\ MsgIsExpense(fn.x)) =>
        /\ fn.parsed.ok
        /\ fn.parsed.description = MsgDescription(fn.x)
        /\ IsValueOf(fn.parsed.amount, MsgAmountWord(fn.x))

\* the part of a message after its first word, a number written in digits
\* with an optional sign and '.' or ',' as separator, and such a number
\* that is not positive
AmountPart(m) == re_split_1(strip(m))[2]
Unsigned(s) == IF s # <<>> /\ s[1] \in {43, 45} THEN Tail(s) ELSE s
IsNumber(s) ==
    /\ \E i \in 1..Len(Unsigned(s)) : isdigit(Unsigned(s)[i])
    /\ \A i \in 1..Len(Unsigned(s)) : isdigit(Unsigned(s)[i]) \/ Unsigned(s)[i] \in {DOT, COMMA}
    /\ Cardinality({i \in 1..Len(Unsigned(s)) : Unsigned(s)[i] \in {DOT, COMMA}}) <= 1
NotPositive(s) == s[1] = 45 \/ \A i \in 1..Len(s) : s[i] \notin 49..57
MsgIsParseError(m) ==
    \/ Len(MsgWords(m)) < 2
    \/ ~IsNumber(AmountPart(m))
    \/ NotPositive(AmountPart(m))

\* C13 (SpecBot): parse errors leave the ledger unchanged.  If the message
\* has no two whitespace-separated parts, or its amount part is not a number,
\* or the amount is <= 0, parse_expense_message raises ValueError:
\* handle_expense replies with the error or format hint, does not call
\* classify, and adds no record.
C13_ParseErrorLeavesLedger ==
    (bot.pc = "done" /\ bot.text # <<>> /\ MsgIsParseError(bot.text)) =>
        /\ bot.reply.kind = "hint"
        /\ ~bot.classified
        /\ db = bot.db0

\* the datetime an inserted row was created at, and "d1 is earlier than d2"
CreatedAt(r) == fromisoformat(r.created_at)
DateKey(d) == <<d.year, d.month, d.day, d.hour, d.minute, d.second, d.microsecond>>
RECURSIVE KeyBefore(_, _)
KeyBefore(k1, k2) ==
    IF k1 = <<>> THEN FALSE
    ELSE IF Head(k1) # Head(k2) THEN Head(k1) < Head(k2)
    ELSE KeyBefore(Tail(k1), Tail(k2))
Earlier(d1, d2) == KeyBefore(DateKey(d1), DateKey(d2))

\* the rows of user u created in month m of year y, and those of them in
\* category c; the sum of the amounts of a set of rows
InMonth(u, m, y) ==
    {i \in 1..Len(db) : /\ db[i].user_id = u
                        /\ CreatedAt(db[i]).month = m
                        /\ CreatedAt(db[i]).year = y}
InMonthOf(u, m, y, c) == {i \in InMonth(u, m, y) : db[i].category_code = c}
RECURSIVE AmountOf(_)
AmountOf(S) ==
    IF S = {} THEN 0
    ELSE LET i == CHOOSE i \in S : TRUE IN db[i].amount + AmountOf(S \ {i})

SummaryIsExact ==
    out.op = "get_month_summary" =>
        /\ DOMAIN out.summary =
              {db[i].category_code : i \in InMonth(out.user_id, out.month, out.year)}
        /\ \A c \in DOMAIN out.summary :
              out.summary[c] = AmountOf(InMonthOf(out.user_id, out.month, out.year, c))
AppendOnly ==
    /\ Len(db') >= Len(db)
    /\ \A i \in 1..Len(db) : db'[i] = db[i]

\* C14 (SpecRepo): month summary over an append-only ledger.  After any
\* sequence of adds, get_month_summary(u, m, y) maps each category code to the
\* sum of the amounts of exactly the added records of user u created in month
\* m of year y; records of other users or months do not contribute, a
\* category without such a record is absent, and no repository operation
\* changes or removes a record added before.
C14_MonthSummary == []SummaryIsExact /\ [][AppendOnly]_vars

\* a summary was returned while the table also holds a record of the same
\* category that does not belong to it (other user, month or year)
C14_Witness ==
    /\ out.op = "get_month_summary"
    /\ \E c \in DOMAIN out.summary :
          \E i \in 1..Len(db) :
              /\ db[i].category_code = c
              /\ i \notin InMonth(out.user_id, out.month, out.year)

\* C15 (SpecRepo): history query.  After any sequence of adds,
\* get_last_expenses(u, limit) returns at most limit records, all of user u,
\* ordered from the newest to the oldest, and they are the most recent
\* records of u: no record of u that was left out is newer than a returned one.
C15_LastExpenses ==
    out.op = "get_last_expenses" =>
        LET es == out.expenses
            mine == {i \in 1..Len(db) : db[i].user_id = out.user_id}
        IN /\ Len(es) <= out.limit
           /\ Len(es) = IF Cardinality(mine) < out.limit THEN Cardinality(mine)
                        ELSE out.limit
           /\ \A k \in 1..Len(es) : es[k].user_id = out.user_id
           /\ \A k \in 1..(Len(es) - 1) : ~Earlier(es[k].created_at, es[k + 1].created_at)
           /\ \E f \in [1..Len(es) -> mine] :
                 /\ \A j, k \in 1..Len(es) : j # k => f[j] # f[k]
                 /\ \A k \in 1..Len(es) :
                       /\ es[k].amount = db[f[k]].amount
                       /\ es[k].description = db[f[k]].description
                       /\ es[k].category_code = db[f[k]].category_code
                       /\ es[k].created_at = CreatedAt(db[f[k]])
                 /\ \A i \in mine \ {f[k] : k \in 1..Len(es)} :
                       \A k \in 1..Len(es) : ~Earlier(es[k].created_at, CreatedAt(db[i]))

\* the limit cut the list short: an older record of the user was left out
C15_Witness ==
    /\ out.op = "get_last_expenses"
    /\ Len(out.expenses) = out.limit
    /\ out.limit >= 1
    /\ \E i \in 1..Len(db) :
          /\ db[i].user_id = out.user_id
          /\ Earlier(CreatedAt(db[i]), out.expenses[Len(out.expenses)].created_at)

\* C16 (Spec): read-only classifier state.  Once the constructor has
\* returned, no step of a classify call (rule hit, semantic path, UNKNOWN
\* outcome, failure) changes the state bundle: anchor matrix, parallel
\* category list and threshold are what init_classifier built, before and
\* after every call.  (The Rule Table is the literal list inside
\* hard_rules_match, rebuilt by every call.)
C16_ReadOnlyState ==
    /\ [](UserCall => model_data = init_classifier(CATEGORY_ANCHORS))
    /\ [][UserCall => model_data' = model_data]_vars

\* a call on the semantic path has returned UNKNOWN
C16_Witness ==
    /\ UserCall
    /\ pc = "returned"
    /\ nEncode = 1
    /\ code = Category.UNKNOWN

\* the code classify(t) returns when the call runs alone on this instance
\* and this backend
AloneCode(t) ==
    IF Hits(t) # {} THEN Category[rules[FirstHit(t)].cat]
    ELSE LET s == enc[QUERY_PREFIX \o clean_text(t)] IN
         IF MaxScore(s) < threshold THEN Category.UNKNOWN
         ELSE Category[LiveModel.anchor_to_cat[
                  CHOOSE i \in 1..Len(s) :
                      s[i] = MaxScore(s) /\ \A j \in 1..(i - 1) : s[j] # MaxScore(s)]]

\* C17 (SpecConc): lock-free concurrent classification.  Under every
\* interleaving of the steps of several concurrent classify calls on one
\* instance, with a reentrant encode, each call returns the code it would
\* return when run alone; the calls share nothing but the unchanged bundle.
C17_ConcurrentCalls ==
    /\ model_data = LiveModel
    /\ \A c \in DOMAIN calls :
          calls[c].pc = "returned" => calls[c].code = AloneCode(calls[c].text)

\* two calls on different texts overlapped (one returned while the other was
\* between its encode and its threshold test) and got different codes
C17_Witness ==
    \E c, d \in DOMAIN calls :
        /\ calls[c].pc = "returned"
        /\ calls[d].pc = "score"
        /\ calls[c].nEncode = 1
        /\ calls[c].text # calls[d].text
        /\ AloneCode(calls[d].text) # calls[c].code

\* what holds while the warm-up call runs, and the order of the constructor's
\* steps
WarmupRuns ==
    ctor = "warmup" =>
        /\ model_data = init_classifier(CATEGORY_ANCHORS)
        /\ pc # "idle"
        /\ text = WARMUP_TEXT
        /\ Hits(WARMUP_TEXT) = {}
WarmupOrder ==
    /\ (ctor' = "warmup" /\ ctor # "warmup") => (ctor = "loaded" /\ inst = "none")
    /\ (ctor = "warmup" /\ ctor' # "warmup") => ctor' \in {"done", "failed"}
    /\ (inst' = "live" /\ inst # "live") =>
          /\ ctor = "warmup" /\ ctor' = "done"
          /\ pc = "predicted"
          /\ nEncode = 1
    /\ (pc = "idle" /\ pc' # "idle" /\ ctor # "loaded") => inst = "live"
\* C18 (Spec): warm-up ordering.  The constructor first builds the index and
\* then runs exactly one warm-up classification, on a text that matches no
\* rule trigger; the instance comes to exist only when that call has gone
\* through the embedding encode once, so encode has run on a query before
\* the constructor returns and before any real classify call starts.
C18_WarmupOrdering == []WarmupRuns /\ [][WarmupOrder]_vars

\* the warm-up call has been through encode and is about to return
C18_Witness ==
    /\ ctor = "warmup"
    /\ pc = "predicted"
    /\ rule_result = None
    /\ nEncode = 1

\* the anchor phrases in dictionary order, counted without the index
RECURSIVE PhrasesBefore(_)
PhrasesBefore(k) ==
    IF k = 1 THEN 0 ELSE PhrasesBefore(k - 1) + CATEGORY_ANCHORS[k - 1].phrases
TotalPhrases == PhrasesBefore(Len(CATEGORY_ANCHORS) + 1)
\* the category (position in the dictionary) that row i belongs to, and the
\* phrase each row stands for
EntryOfRow(i) ==
    CHOOSE k \in 1..Len(CATEGORY_ANCHORS) :
        PhrasesBefore(k) < i /\ i <= PhrasesBefore(k) + CATEGORY_ANCHORS[k].phrases
PhraseOfRow ==
    [i \in 1..TotalPhrases |->
        <<CATEGORY_ANCHORS[EntryOfRow(i)].cat, i - PhrasesBefore(EntryOfRow(i))>>]

\* C19 (Spec): index alignment.  After init_classifier the anchor matrix has
\* one row per anchor phrase, anchor_to_cat has the same length, entry i is
\* the category whose phrase produced row i (categories in dictionary order,
\* phrases in list order), and UNKNOWN is not in the list: the semantic path
\* returns UNKNOWN only through the threshold test.
C19_IndexAlignment ==
    model_data.model # None =>
        /\ model_data.rows = TotalPhrases
        /\ Len(model_data.anchor_embeddings) = TotalPhrases
        /\ Len(model_data.anchor_to_cat) = TotalPhrases
        /\ \A i \in 1..TotalPhrases :
              /\ model_data.anchor_embeddings[i] = PhraseOfRow[i]
              /\ model_data.anchor_to_cat[i] = model_data.anchor_embeddings[i][1]
              /\ model_data.anchor_to_cat[i] # "UNKNOWN"
        /\ (pc = "predicted" /\ rule_result = None /\ result = "UNKNOWN")
              => confidence < model_data.threshold
        /\ (pc = "predicted" /\ rule_result = None /\ result # "UNKNOWN")
              => result = model_data.anchor_embeddings[best_idx][1]

\* the last row won, and the call returns the last category of the dictionary
C19_Witness ==
    /\ pc = "predicted"
    /\ rule_result = None
    /\ best_idx = TotalPhrases
    /\ result = CATEGORY_ANCHORS[Len(CATEGORY_ANCHORS)].cat

\* encode invocations of the running call, and where a failed call can go
EncodeOnce ==
    /\ nEncode <= 1
    /\ pc \in {"raised", "failed"} => (nEncode = 1 /\ result = None /\ code = None)
FailurePropagates ==
    /\ pc = "raised" => pc' \in {"raised", "failed", "idle"}
    /\ pc = "failed" => pc' \in {"failed", "idle"}
    /\ pc \in {"raised", "failed"} => (nEncode' = nEncode \/ pc' = "idle")
\* C20 (Spec): no retries inside the classifier.  A classify call invokes the
\* embedding encode at most once; if that invocation fails, the failure goes
\* to the caller of classify, with no second attempt and no category code.
C20_NoRetries == []EncodeOnce /\ [][FailurePropagates]_vars

\* a real classify call was left by the failure of its one encode
C20_Witness ==
    /\ UserCall
    /\ pc = "failed"
    /\ nEncode = 1

\* the tables: no trigger holds whitespace or '|', no stop-word holds a trigger
TablesAreDisjoint ==
    /\ \A k \in 1..Len(rules) :
          \A i \in 1..Len(rules[k].trigger) :
              ~isspace(rules[k].trigger[i]) /\ rules[k].trigger[i] # BAR
    /\ \A w \in noise : \A k \in 1..Len(rules) : ~Occurs(rules[k].trigger, w)

\* C23 (SpecFn): rule matching is unaffected by normalization.  For every
\* input text, hard_rules_match(text) equals hard_rules_match(clean_text(text)):
\* no trigger contains whitespace or '|' and no stop-word contains a trigger,
\* so the same rule fires with or without the normalizer.
C23_RulesIgnoreNormalization ==
    /\ TablesAreDisjoint
    /\ fn.pc = "matched_cleaned" => fn.rule_cleaned = fn.rule

\* a rule fires on a text that the normalizer changes beyond lower-casing
C23_Witness ==
    /\ fn.pc = "matched_cleaned"
    /\ fn.rule # None
    /\ fn.cleaned # lower(fn.x)
    /\ fn.rule_cleaned = fn.rule

\* a run that parsed, met no failure and answered with the summary
RunRecorded == bot.pc = "done" /\ bot.reply.kind = "recorded"

\* the month and year handed to get_month_summary are those of created_at
SameMonth ==
    /\ Timeline[bot.created_at].month = bot.month
    /\ Timeline[bot.created_at].year = bot.year

\* the steps of a run in the order the claim gives them
StepRank ==
    [parse |-> 1, classify |-> 2, classifying |-> 3, add |-> 4, month |-> 5,
     year |-> 6, summary |-> 7, reply |-> 8]

\* where a run stands tells what has happened: nothing is recorded before the
\* add, classify ran before it, one record is there after it
PipelineState ==
    /\ bot.pc \in {"parse", "classify"} => ~bot.classified /\ db = bot.db0
    /\ bot.pc = "classifying" => (pc # "idle" /\ text = bot.description /\ db = bot.db0)
    /\ bot.pc = "add" => (bot.classified /\ db = bot.db0)
    /\ bot.pc \in {"month", "year", "summary", "reply"} =>
          (bot.classified /\ Len(db) = Len(bot.db0) + 1)
    /\ RunRecorded =>
          /\ bot.classified
          /\ Len(db) = Len(bot.db0) + 1
          /\ SubSeq(db, 1, Len(bot.db0)) = bot.db0
          /\ db[Len(db)].user_id = bot.user_id
          /\ db[Len(db)].description = bot.description
          /\ db[Len(db)].amount = real_of(bot.amount)
          /\ db[Len(db)].category_code = bot.category_code
          /\ SameMonth => bot.spent_in_category >= db[Len(db)].amount

\* a step of a run goes to the next step of the order; the table changes in
\* the add step only; the code kept is the one classify returned; the summary
\* reply is sent from the reply step only
PipelineStep ==
    /\ (bot'.pc # bot.pc /\ bot.pc \in DOMAIN StepRank /\ bot'.pc \in DOMAIN StepRank)
          => StepRank[bot'.pc] = StepRank[bot.pc] + 1
    /\ db' # db => (bot.pc = "add" /\ bot'.pc = "month")
    /\ (bot.pc = "classifying" /\ bot'.pc = "add")
          => (pc = "returned" /\ text = bot.description /\ bot'.category_code = code)
    /\ (bot'.reply.kind = "recorded" /\ bot.reply.kind # "recorded")
          => (bot.pc = "reply" /\ bot'.pc = "done")
    /\ bot'.pc = "done" => bot.pc \in {"idle", "done", "reply", "value_error", "exception"}

\* C21 (SpecBot): expense pipeline ordering.  In every handle_expense run
\* that parses successfully and meets no failure the steps happen in the
\* order parse, classify, repository add, month summary, reply; exactly one
\* record is added, carrying the code classify returned for the parsed
\* description; and, the clock staying within one month, the per-category
\* spent figure of the reply includes the amount just recorded.
C21_PipelineOrdering == []PipelineState /\ [][PipelineStep]_vars

\* a second expense of the same category in the same month has been answered:
\* the figure shown is more than the amount just recorded
C21_Witness ==
    /\ RunRecorded
    /\ SameMonth
    /\ Len(bot.db0) >= 1
    /\ bot.spent_in_category > db[Len(db)].amount

\* C22 (SpecBot): a failure reply implies nothing recorded.  Whenever
\* handle_expense answers a message with the generic failure text that asks
\* the user to try again, no record originating from that message is in the
\* repository.
C22_FailureReplyNothingRecorded ==
    (bot.pc = "done" /\ bot.reply.kind = "failure") => NewRecords = {}

====
